---- MODULE Spec2Model ----
(***************************************************************************)
(* A model of the pick list widget (native/src/widget/pick_list.rs):       *)
(* the persistent State, the per-frame PickList built from it, the event   *)
(* handler on_event, and overlay(), which lends the State to the menu.     *)
(***************************************************************************)
EXTENDS Integers, Sequences, FiniteSets, TLC

\* ---------------------------------------------------------------- bounds
\* Longest option list a frame is built with.
MaxOptions == 2
\* Number of selections the menu commits in one behaviour.
MaxWrites == 2

\* ----------------------------------------------------------------- types
\* The option values T (T: Clone + ToString + Eq).
Values == {"Small", "Medium"}

\* Option<T>: None, or Some(v).
None == <<>>

Some(v) == <<v>>

OptionOf(S) == {None} \cup {Some(v) : v \in S}

\* The option lists a frame can be built with (duplicates included).
OptionLists == UNION {[1..n -> Values] : n \in 0..MaxOptions}

\* The selected values a frame can be built with. The option lists range
\* over both values, so the selected value occurs in them at every index,
\* more than once, and not at all.
Selections == {None, Some("Medium")}

\* The events dispatched to the widget; only the first is a primary press.
LeftPressed == "Mouse(ButtonPressed(Left))"

Events == {LeftPressed, "Mouse(ButtonPressed(Right))",
           "Keyboard(KeyPressed)"}

\* menu::State, opaque to the widget: as created, or changed by the menu.
MenuStates == {"default", "scrolled"}

\* Cursor positions: both coordinates negative (the cursor is not available
\* to the widget), one of them negative, on screen outside the widget's
\* bounds, and inside them.
Points == {[x |-> -1, y |-> -1], [x |-> -1, y |-> 1], [x |-> 1, y |-> -1],
           [x |-> 0, y |-> 0], [x |-> 1, y |-> 1]}

\* layout.bounds() of the widget in the frame.
Bounds == [x |-> 1, y |-> 1, width |-> 1, height |-> 1]

\* Rectangle::contains.
Contains(r, p) ==
    /\ r.x <= p.x /\ p.x <= r.x + r.width
    /\ r.y <= p.y /\ p.y <= r.y + r.height

\* Mutant: the callback is handed a value other than the one taken out of
\* the mailbox.
on_selected_fixed(v) == [selected |-> "Small"]

\* The callback of the frame, Fn(T) -> Message.
on_selected(v) == [selected |-> v]

\* ----------------------------------------------------------------- state
VARIABLES
    menu,            \* State.menu: the menu's own (scroll) state
    is_open,         \* State.is_open
    hovered_option,  \* State.hovered_option: Option<usize>
    last_selection,  \* State.last_selection: Option<T>, the mailbox
    options,         \* PickList.options of the current frame
    selected,        \* PickList.selected of the current frame
    config,          \* PickList.width, padding and text_size of the current frame
    element,         \* the overlay element returned by overlay(), while it lives
    messages,        \* the message sink handed to on_event
    written,         \* history: the values the menu stored in last_selection
    overwritten,     \* history: how many of them it stored over an undrained one
    last,            \* history: the most recent operation, its inputs and pre-state
    computed         \* history: what the most recent layout() or hash_layout() returned

vars == <<menu, is_open, hovered_option, last_selection, options, selected,
          config, element, messages, written, overwritten, last, computed>>

Origin == [x |-> 0, y |-> 0]

\* Length: the width policy of the widget.
Shrink == [kind |-> "Shrink"]

Fill == [kind |-> "Fill"]

Units(n) == [kind |-> "Units", units |-> n]

\* Renderer::DEFAULT_PADDING.
DEFAULT_PADDING == 5

\* What PickList::new gives the presentation parameters.
NewConfig == [width |-> Shrink, padding |-> DEFAULT_PADDING, text_size |-> None]

\* State::default().
Default == [menu |-> "default", is_open |-> FALSE, hovered_option |-> None,
            last_selection |-> None]

\* The four fields of State as they are now.
StateNow == [menu |-> menu, is_open |-> is_open,
             hovered_option |-> hovered_option,
             last_selection |-> last_selection]

\* The record of an operation in the history variable: for a dispatch, the
\* event, the cursor, the State as it was before it, and the messages it
\* pushed; for overlay(), the State as it was before it.
Op(name, event, cursor, pre, emitted) ==
    [op |-> name, event |-> event, cursor |-> cursor, pre |-> pre,
     emitted |-> emitted]

\* The record of an operation of the frame or of the menu.
Did(name) == Op(name, "-", Origin, Default, <<>>)

\* The application creates the State; no frame has been built yet.
Init ==
    /\ menu = Default.menu
    /\ is_open = Default.is_open
    /\ hovered_option = Default.hovered_option
    /\ last_selection = Default.last_selection
    /\ options = <<>>
    /\ selected = None
    /\ config = NewConfig
    /\ computed = None
    /\ element = None
    /\ messages = <<>>
    /\ written = <<>>
    /\ overwritten = 0
    /\ last = Did("default")


\* ------------------------------------------------------------ PickList::new
\* A frame builds the widget over the State with its options and selection.
New(opts, sel) ==
    /\ element = None
    /\ options' = opts
    /\ selected' = sel
    /\ config' = NewConfig
    /\ computed' = None
    /\ last' = Did("new")
    /\ UNCHANGED <<menu, is_open, hovered_option, last_selection, element,
                   messages, written, overwritten>>

\* ------------------------------------------------------ PickList::on_event
\* Mutant: index of the last option equal to the selected value.
position_last(opts, sel) ==
    LET hits == {i \in 1..Len(opts) : Some(opts[i]) = sel}
    IN  IF hits = {} THEN None
        ELSE Some((CHOOSE i \in hits : \A j \in hits : i >= j) - 1)

\* options.iter().position(|option| Some(option) == selected): the 0-based
\* index of the first option equal to the selected value.
position(opts, sel) ==
    LET hits == {i \in 1..Len(opts) : Some(opts[i]) = sel}
    IN  IF hits = {} THEN None
        ELSE Some((CHOOSE i \in hits : \A j \in hits : i <= j) - 1)

\* Mutant: the cursor counts as unavailable only with both coordinates
\* negative.
cursor_unavailable_both(cursor) == cursor.x < 0 /\ cursor.y < 0

\* The value an open widget's is_open takes on a primary press.
cursor_unavailable(cursor) == cursor.x < 0 \/ cursor.y < 0

\* Mutant: an open widget stays open whatever the cursor.
press_open_close_keeps_open(w, cursor) ==
    IF w.is_open
    THEN w
    ELSE IF Contains(Bounds, cursor)
         THEN [w EXCEPT !.is_open = TRUE,
                        !.hovered_option = position(options, selected)]
         ELSE w

\* Mutant: a closed widget opens on a press anywhere.
press_open_close_anywhere(w, cursor) ==
    IF w.is_open
    THEN [w EXCEPT !.is_open = cursor_unavailable(cursor)]
    ELSE [w EXCEPT !.is_open = TRUE,
                   !.hovered_option = position(options, selected)]

\* Mutant: a press on an open widget seeds the highlight again.
press_open_close_reseeds(w, cursor) ==
    IF w.is_open
    THEN [w EXCEPT !.is_open = cursor_unavailable(cursor),
                   !.hovered_option = position(options, selected)]
    ELSE IF Contains(Bounds, cursor)
         THEN [w EXCEPT !.is_open = TRUE,
                        !.hovered_option = position(options, selected)]
         ELSE w

\* The open/close logic of a primary press; w holds the State fields and the
\* message sink.
press_open_close(w, cursor) ==
    IF w.is_open
    THEN [w EXCEPT !.is_open = cursor_unavailable(cursor)]
    ELSE IF Contains(Bounds, cursor)
         THEN [w EXCEPT !.is_open = TRUE,
                        !.hovered_option = position(options, selected)]
         ELSE w

\* Mutant: the commit leaves is_open as the open/close logic set it.
deferred_commit_no_close(w) ==
    IF w.last_selection # None
    THEN [w EXCEPT !.last_selection = None,
                   !.messages = Append(w.messages,
                                       on_selected(w.last_selection[1]))]
    ELSE w

\* Mutant: the commit pushes the message twice.
deferred_commit_twice(w) ==
    IF w.last_selection # None
    THEN [w EXCEPT !.last_selection = None,
                   !.messages = w.messages \o
                                <<on_selected(w.last_selection[1]),
                                  on_selected(w.last_selection[1])>>,
                   !.is_open = FALSE]
    ELSE w

\* Mutant: the commit reads the mailbox without taking the value out.
deferred_commit_no_take(w) ==
    IF w.last_selection # None
    THEN [w EXCEPT !.messages = Append(w.messages,
                                       on_selected(w.last_selection[1])),
                   !.is_open = FALSE]
    ELSE w

\* The deferred commit: take the mailbox, push the message, close.
deferred_commit(w) ==
    IF w.last_selection # None
    THEN [w EXCEPT !.last_selection = None,
                   !.messages = Append(w.messages,
                                       on_selected(w.last_selection[1])),
                   !.is_open = FALSE]
    ELSE w

\* Mutant: the handler matches a press of any button.
on_event_any_button(w, event, cursor) ==
    IF event \in {LeftPressed, "Mouse(ButtonPressed(Right))"}
    THEN deferred_commit(press_open_close(w, cursor))
    ELSE w

\* Mutant: the deferred commit runs before the open/close logic.
on_event_commit_first(w, event, cursor) ==
    IF event = LeftPressed
    THEN press_open_close(deferred_commit(w), cursor)
    ELSE w

\* Mutant: an event that is not a primary press closes the widget.
on_event_other_closes(w, event, cursor) ==
    IF event = LeftPressed
    THEN deferred_commit(press_open_close(w, cursor))
    ELSE [w EXCEPT !.is_open = FALSE]

\* Mutant: the deferred commit runs only when the press found the widget
\* closed.
on_event_commit_if_closed(w, event, cursor) ==
    IF event = LeftPressed
    THEN IF w.is_open
         THEN press_open_close(w, cursor)
         ELSE deferred_commit(press_open_close(w, cursor))
    ELSE w

\* The whole handler: the match on the event.
on_event(w, event, cursor) ==
    IF event = LeftPressed
    THEN deferred_commit(press_open_close(w, cursor))
    ELSE w

\* The widget as on_event sees it: the borrowed State and the sink.
Widget == [menu |-> menu, is_open |-> is_open,
           hovered_option |-> hovered_option,
           last_selection |-> last_selection, messages |-> messages]

OnEvent(event, cursor) ==
    LET w == on_event(Widget, event, cursor)
    IN  /\ element = None
        /\ menu' = w.menu
        /\ is_open' = w.is_open
        /\ hovered_option' = w.hovered_option
        /\ last_selection' = w.last_selection
        /\ messages' = w.messages
        /\ last' = Op("on_event", event, cursor, StateNow,
                      SubSeq(w.messages, Len(messages) + 1, Len(w.messages)))
        /\ UNCHANGED <<options, selected, element, written, overwritten,
                       config, computed>>

\* ------------------------------------------------------- PickList::overlay
\* Mutant: overlay() builds the menu whether or not the widget is open.
overlay_always(open) ==
    Some([width |-> Bounds.width,
          position |-> [x |-> Bounds.x, y |-> Bounds.y],
          target_height |-> Bounds.height])

\* The element overlay() returns: a menu under the widget, or none.
overlay(open) ==
    IF open
    THEN Some([width |-> Bounds.width,
               position |-> [x |-> Bounds.x, y |-> Bounds.y],
               target_height |-> Bounds.height])
    ELSE None

\* overlay() borrows the widget for as long as the element lives.
Overlay ==
    /\ element = None
    /\ element' = overlay(is_open)
    /\ last' = Op("overlay", "-", Origin, StateNow, <<>>)
    /\ UNCHANGED <<menu, is_open, hovered_option, last_selection, options,
                   selected, messages, written, overwritten,
                   config, computed>>

\* The element is dropped and the borrow ends.
DropElement ==
    /\ element # None
    /\ element' = None
    /\ last' = Did("drop")
    /\ UNCHANGED <<menu, is_open, hovered_option, last_selection, options,
                   selected, messages, written, overwritten,
                   config, computed>>

\* ------------------------------------------------- the menu of the element
\* The menu highlights an option, or none.
MenuHover(h) ==
    /\ element # None
    /\ h # None => h[1] < Len(options)
    /\ hovered_option' = h
    /\ last' = Did("menu_hover")
    /\ UNCHANGED <<menu, is_open, last_selection, options, selected, element,
                   messages, written, overwritten,
                   config, computed>>

\* The menu scrolls.
MenuScroll(m) ==
    /\ element # None
    /\ menu' = m
    /\ last' = Did("menu_scroll")
    /\ UNCHANGED <<is_open, hovered_option, last_selection, options, selected,
                   element, messages, written, overwritten,
                   config, computed>>

\* The user commits the highlighted option: the menu stores it in the
\* mailbox, over whatever the mailbox holds.
MenuSelect ==
    /\ element # None
    /\ Len(written) < MaxWrites
    /\ hovered_option # None
    /\ hovered_option[1] < Len(options)
    /\ last_selection' = Some(options[hovered_option[1] + 1])
    /\ written' = Append(written, options[hovered_option[1] + 1])
    /\ overwritten' = overwritten + (IF last_selection # None THEN 1 ELSE 0)
    /\ last' = Did("menu_select")
    /\ UNCHANGED <<menu, is_open, hovered_option, options, selected, element,
                   messages,
                   config, computed>>

\* ---------------------------------------------------------- specification
Next ==
    \/ \E opts \in OptionLists, sel \in Selections : New(opts, sel)
    \/ \E event \in Events, cursor \in Points : OnEvent(event, cursor)
    \/ Overlay
    \/ DropElement
    \/ \E h \in OptionOf(0..(MaxOptions - 1)) : MenuHover(h)
    \/ \E m \in MenuStates : MenuScroll(m)
    \/ MenuSelect

Spec == Init /\ [][Next]_vars

\* on_event as a function of what it is handed: every value of the State
\* and every frame, the closed widget with a value in its mailbox included
\* (a State the operations above never produce, see ClosedIsEmpty).
InitHandler ==
    /\ menu \in MenuStates
    /\ is_open \in BOOLEAN
    /\ hovered_option \in OptionOf(0..(MaxOptions - 1))
    /\ last_selection \in OptionOf(Values)
    /\ options \in OptionLists
    /\ selected \in Selections
    /\ config = NewConfig
    /\ computed = None
    /\ element = None
    /\ messages = <<>>
    /\ written = <<>>
    /\ overwritten = 0
    /\ last = Did("default")

NextHandler == \E event \in Events, cursor \in Points : OnEvent(event, cursor)

SpecHandler == InitHandler /\ [][NextHandler]_vars

\* The runtime drops every overlay element it was given, at the end of the
\* frame, and the user goes on pressing the primary button: a press is
\* dispatched again and again while the widget can be handed one.
Fairness ==
    /\ WF_vars(DropElement)
    /\ SF_vars(\E cursor \in Points : OnEvent(LeftPressed, cursor))

SpecLive == Spec /\ Fairness

TypeOK ==
    /\ menu \in MenuStates
    /\ is_open \in BOOLEAN
    /\ hovered_option \in OptionOf(0..(MaxOptions - 1))
    /\ last_selection \in OptionOf(Values)
    /\ options \in OptionLists
    /\ selected \in Selections
    /\ Len(messages) <= MaxWrites
    /\ Len(written) <= MaxWrites

\* ------------------------------------------------------ sizing: the inputs
\* f32::INFINITY, in pixels.
Infinity == 1000000

\* The option values of the sizing runs: those above and one more, which an
\* application shows under the label of another.
SizingValues == Values \cup {"Mid"}

\* ToString::to_string of an option value: its label, as characters.
to_string(v) ==
    CASE v = "Small" -> <<"S">>
      [] v = "Medium" -> <<"M", "d">>
      [] v = "Mid" -> <<"M", "d">>

SizingLists == UNION {[1..n -> SizingValues] : n \in 0..MaxOptions}

\* The widths, paddings and text sizes the builder methods are called with.
Widths == {Shrink, Fill, Units(80)}

Paddings == {DEFAULT_PADDING, 0, 10}

TextSizes == {15}

\* renderer.default_size().
default_size == 20

\* Size.
Size(w, h) == [width |-> w, height |-> h]

\* layout::Limits: Limits::NONE, and Limits::new(min, max).
LimitsNew(min, max) ==
    [min |-> min, max |-> max, fill |-> Size(Infinity, Infinity)]

LimitsNone == LimitsNew(Size(0, 0), Size(Infinity, Infinity))

\* The limits the host lays the widget out under.
LimitsSet == {LimitsNone,
              LimitsNew(Size(0, 0), Size(70, 40)),
              LimitsNew(Size(90, 30), Size(200, 100))}

\* f32 arithmetic on pixels, of which some are infinite.
Plus(a, b) == IF a = Infinity \/ b = Infinity THEN Infinity ELSE a + b

MinusOrZero(a, b) ==
    IF a = Infinity THEN Infinity ELSE IF a > b THEN a - b ELSE 0

Min(a, b) == IF a <= b THEN a ELSE b

Max(a, b) == IF a >= b THEN a ELSE b

\* Limits::width.
limits_width(l, w) ==
    IF w = Shrink
    THEN [l EXCEPT !.fill.width = l.min.width]
    ELSE IF w = Fill
    THEN [l EXCEPT !.fill.width = Min(l.fill.width, l.max.width)]
    ELSE LET new_width == Max(Min(w.units, l.max.width), l.min.width)
         IN  [l EXCEPT !.min.width = new_width, !.max.width = new_width,
                       !.fill.width = new_width]

\* Limits::height, called with Length::Shrink.
limits_height_shrink(l) == [l EXCEPT !.fill.height = l.min.height]

\* Limits::pad.
limits_pad(l, padding) ==
    LET shrink(sz) == Size(MinusOrZero(sz.width, 2 * padding),
                           MinusOrZero(sz.height, 2 * padding))
    IN  [min |-> shrink(l.min), max |-> shrink(l.max), fill |-> shrink(l.fill)]

\* Limits::resolve.
resolve(l, intrinsic) ==
    Size(Max(Min(intrinsic.width, l.max.width), l.fill.width),
         Max(Min(intrinsic.height, l.max.height), l.fill.height))

\* Size::pad.
size_pad(sz, padding) ==
    Size(Plus(sz.width, 2 * padding), Plus(sz.height, 2 * padding))

\* renderer.measure(label, size, font, bounds).0: the width of the label in
\* tenths of a pixel, half the text size for each character.
measure(label, size) == Len(label) * size * 5

\* f32::round() as u32, of a width in tenths of a pixel.
round(tenths) == (tenths + 5) \div 10

\* The largest of a non-empty set of numbers.
Largest(S) == CHOOSE x \in S : \A y \in S : x >= y

\* ------------------------------------------- sizing: the builder methods
\* The widget of the frame as layout() and hash_layout() see it.
PickListNow ==
    [options |-> options, selected |-> selected, width |-> config.width,
     padding |-> config.padding, text_size |-> config.text_size]

\* The record of a call of layout() or of hash_layout().
Computed(name, limits, laid, fed) ==
    Some([op |-> name, limits |-> limits, measured |-> laid.measured,
          intrinsic |-> laid.intrinsic, size |-> laid.size, fed |-> fed])

\* What the record holds in place of a layout.
NotLaid == [measured |-> <<>>, intrinsic |-> Size(0, 0), size |-> Size(0, 0)]

\* One of width(), padding() and text_size(), called on the widget before
\* the host has it.
Configure(name, c) ==
    /\ element = None
    /\ computed = None
    /\ last.op # "default"
    /\ config' = c
    /\ last' = Did(name)
    /\ UNCHANGED <<menu, is_open, hovered_option, last_selection, options,
                   selected, element, messages, written, overwritten,
                   computed>>

SetWidth(w) == Configure("width", [config EXCEPT !.width = w])

SetPadding(p) == Configure("padding", [config EXCEPT !.padding = p])

SetTextSize(sz) == Configure("text_size", [config EXCEPT !.text_size = Some(sz)])

\* ------------------------------------------------------- PickList::layout
\* self.text_size.unwrap_or(renderer.default_size()).
effective_text_size(w) ==
    IF w.text_size = None THEN default_size ELSE w.text_size[1]

\* self.options.iter().map(ToString::to_string).
labels(w) == [i \in 1..Len(w.options) |-> to_string(w.options[i])]

\* The width max_width falls back to when there is no option.
DefaultMaxWidth == 100

\* Mutant: only the selected value's label is measured.
max_width_selected(w) ==
    IF w.width = Shrink
    THEN IF w.selected = None
         THEN DefaultMaxWidth
         ELSE round(measure(to_string(w.selected[1]), effective_text_size(w)))
    ELSE 0

\* max_width: the widest label, rounded, under Shrink; 0 under another width.
max_width(w) ==
    IF w.width = Shrink
    THEN IF Len(w.options) = 0
         THEN DefaultMaxWidth
         ELSE Largest({round(measure(labels(w)[i], effective_text_size(w))) :
                           i \in 1..Len(w.options)})
    ELSE 0

\* Mutant: the widest label is taken off the text size and the padding.
intrinsic_minus(w) ==
    Size(effective_text_size(w) + w.padding - max_width(w),
         effective_text_size(w))

\* The intrinsic size handed to limits.resolve.
intrinsic(w) ==
    Size(max_width(w) + effective_text_size(w) + w.padding,
         effective_text_size(w))

\* layout(): the labels measured, the intrinsic size, and the size of the
\* node.
layout(w, limits) ==
    LET padded == limits_pad(
                      limits_height_shrink(limits_width(limits, w.width)),
                      w.padding)
    IN  [measured |-> IF w.width = Shrink THEN labels(w) ELSE <<>>,
         intrinsic |-> intrinsic(w),
         size |-> size_pad(resolve(padded, intrinsic(w)), w.padding)]

Layout(limits) ==
    /\ element = None
    /\ last.op # "default"
    /\ computed' = Computed("layout", limits, layout(PickListNow, limits), <<>>)
    /\ last' = Did("layout")
    /\ UNCHANGED <<menu, is_open, hovered_option, last_selection, options,
                   selected, config, element, messages, written, overwritten>>

\* -------------------------------------------------- PickList::hash_layout
\* What hashing a String feeds the hasher: its characters and an end mark.
hash_str(label) == label \o <<"0xFF">>

\* What hashing a Length feeds the hasher: the variant and its field.
hash_length(w) ==
    IF w.kind = "Units" THEN <<w.kind, ToString(w.units)>> ELSE <<w.kind>>

\* What hashing each of a sequence of labels in turn feeds the hasher.
RECURSIVE hash_each(_)
hash_each(ls) ==
    IF ls = <<>> THEN <<>> ELSE hash_str(Head(ls)) \o hash_each(Tail(ls))

\* Mutant: the padding is hashed as well.
hash_layout_with_padding(w) ==
    IF w.width = Shrink
    THEN hash_each(labels(w)) \o <<ToString(w.padding)>>
    ELSE hash_length(w.width) \o <<ToString(w.padding)>>

\* Mutant: the labels are hashed under every width.
hash_layout_labels_always(w) ==
    IF w.width = Shrink
    THEN hash_each(labels(w))
    ELSE hash_length(w.width) \o hash_each(labels(w))

\* hash_layout(): what the widget feeds the hasher.
hash_layout(w) ==
    IF w.width = Shrink
    THEN hash_each(labels(w))
    ELSE hash_length(w.width)

HashLayout ==
    /\ element = None
    /\ last.op # "default"
    /\ computed' = Computed("hash_layout", LimitsNone, NotLaid,
                            hash_layout(PickListNow))
    /\ last' = Did("hash_layout")
    /\ UNCHANGED <<menu, is_open, hovered_option, last_selection, options,
                   selected, config, element, messages, written, overwritten>>

\* A frame is built, configured, hashed and laid out.
NextLayout ==
    \/ \E opts \in SizingLists, sel \in OptionOf(SizingValues) : New(opts, sel)
    \/ \E w \in Widths : SetWidth(w)
    \/ \E p \in Paddings : SetPadding(p)
    \/ \E sz \in TextSizes : SetTextSize(sz)
    \/ \E limits \in LimitsSet : Layout(limits)
    \/ HashLayout

SpecLayout == Init /\ [][NextLayout]_vars

\* ------------------------------------------------------------- properties
\* The most recent operation was a dispatch of on_event.
Dispatched == last.op = "on_event"

\* The most recent operation was a dispatch of a primary-button press.
Pressed == Dispatched /\ last.event = LeftPressed

\* The cursor of the most recent dispatch had a negative x or y.
AtSentinel == last.cursor.x < 0 \/ last.cursor.y < 0

\* The cursor of the most recent dispatch was inside the widget's bounds.
InBounds ==
    /\ Bounds.x <= last.cursor.x /\ last.cursor.x <= Bounds.x + Bounds.width
    /\ Bounds.y <= last.cursor.y /\ last.cursor.y <= Bounds.y + Bounds.height

\* The most recent dispatch drained the value x: the mailbox is empty, the
\* widget is closed, and the one message pushed, the last of the sink, is
\* on_selected(x).
Committed(x) ==
    /\ last_selection = None
    /\ is_open = FALSE
    /\ last.emitted = <<on_selected(x)>>
    /\ Len(messages) >= 1
    /\ messages[Len(messages)] = on_selected(x)

\* C1, as stated: after every dispatch of on_event, whatever the event, that
\* found Some(x) in the mailbox, the mailbox is empty, the widget is closed
\* and exactly one message, on_selected(x), was pushed.
CommitOnEveryDispatch ==
    (Dispatched /\ last.pre.last_selection # None)
        => Committed(last.pre.last_selection[1])

\* C1, amended: after every dispatch of a primary-button press that found
\* Some(x) in the mailbox, the mailbox is empty, the widget is closed and
\* exactly one message, on_selected(x), was pushed.
CommitOnPress ==
    (Pressed /\ last.pre.last_selection # None)
        => Committed(last.pre.last_selection[1])

\* A press at the sentinel found the open widget's mailbox full and drained
\* it.
CommitOnPressWitness ==
    /\ Pressed
    /\ last.pre.is_open
    /\ AtSentinel
    /\ last.pre.last_selection = Some("Small")
    /\ Committed("Small")

\* C2: a dispatch of on_event pushes no message or one, never more.
AtMostOneMessage == Dispatched => Len(last.emitted) <= 1

\* A dispatch pushed one message onto a sink that already held one.
AtMostOneMessageWitness ==
    /\ Dispatched
    /\ Len(last.emitted) = 1
    /\ Len(messages) = 2

\* The messages owed to the application when no value was overwritten: one
\* per value written, in order, but for the value still in the mailbox.
Delivered ==
    [i \in 1..(Len(written) - (IF last_selection # None THEN 1 ELSE 0))
        |-> on_selected(written[i])]

\* C3: while the menu writes only into a drained mailbox, the sink holds
\* on_selected(v) exactly once for each value v written and drained, in the
\* order written, and nothing else; and whatever the menu does, every
\* message in the sink is on_selected of a value written before.
ExactlyOncePerSelection ==
    /\ overwritten = 0 => messages = Delivered
    /\ \A i \in 1..Len(messages) :
           \E j \in 1..Len(written) : messages[i] = on_selected(written[j])

\* Two values were written and drained in turn, and a later press pushed
\* nothing.
ExactlyOncePerSelectionWitness ==
    /\ overwritten = 0
    /\ Len(written) >= 2
    /\ written[1] # written[2]
    /\ Len(messages) = Len(written)
    /\ Pressed
    /\ last.emitted = <<>>

\* C4, as stated: a primary press at a negative x or y on an open widget
\* with an empty mailbox closes it and pushes no message.
SentinelPressCloses ==
    (Pressed /\ last.pre.is_open /\ last.pre.last_selection = None
             /\ AtSentinel)
        => (is_open = FALSE /\ last.emitted = <<>>)

\* C4, amended: a primary press at a negative x or y on an open widget with
\* an empty mailbox leaves it open and pushes no message.
SentinelPressStaysOpen ==
    (Pressed /\ last.pre.is_open /\ last.pre.last_selection = None
             /\ AtSentinel)
        => (is_open = TRUE /\ last.emitted = <<>>)

\* The open widget took a press with only x negative.
SentinelPressStaysOpenWitness ==
    /\ Pressed
    /\ last.pre.is_open
    /\ last.pre.last_selection = None
    /\ last.cursor.x < 0
    /\ last.cursor.y >= 0
    /\ is_open

\* C5, as stated: a primary press at x >= 0 and y >= 0 on an open widget with
\* an empty mailbox changes nothing: it stays open, the highlight is kept.
OrdinaryPressStaysOpen ==
    (Pressed /\ last.pre.is_open /\ last.pre.last_selection = None
             /\ ~AtSentinel)
        => (is_open = TRUE /\ hovered_option = last.pre.hovered_option)

\* C5, amended: a primary press at x >= 0 and y >= 0, inside the bounds or
\* outside, on an open widget with an empty mailbox closes it; the highlight
\* is kept and no message is pushed.
OrdinaryPressCloses ==
    (Pressed /\ last.pre.is_open /\ last.pre.last_selection = None
             /\ ~AtSentinel)
        => /\ is_open = FALSE
           /\ hovered_option = last.pre.hovered_option
           /\ last.emitted = <<>>

\* The open widget, an option highlighted, took a press on screen outside
\* its bounds.
OrdinaryPressClosesWitness ==
    /\ Pressed
    /\ last.pre.is_open
    /\ last.pre.last_selection = None
    /\ ~AtSentinel
    /\ ~InBounds
    /\ last.pre.hovered_option = Some(1)
    /\ is_open = FALSE

\* The most recent dispatch was a primary press inside the bounds of a
\* closed widget with an empty mailbox.
Opened ==
    /\ Pressed
    /\ ~last.pre.is_open
    /\ last.pre.last_selection = None
    /\ InBounds

\* The selected value is absent from the options: there is no selection, or
\* no option equals it (none at all when the list is empty).
Absent == \A i \in 1..Len(options) : Some(options[i]) # selected

\* C6, as stated: opening sets is_open and sets the highlight to Some(i) when
\* the selected value is at index i of the options, and to None when it is
\* absent, when nothing is selected, or when the list is empty.
HoverSeededAtAnyIndex ==
    Opened
        => /\ is_open = TRUE
           /\ \A i \in 1..Len(options) :
                  Some(options[i]) = selected => hovered_option = Some(i - 1)
           /\ Absent => hovered_option = None

\* C6, amended: opening sets is_open and sets the highlight to Some(i) for
\* the first index i at which the selected value is in the options, and to
\* None when it is absent, when nothing is selected, or when the list is
\* empty.
HoverSeededAtFirstIndex ==
    Opened
        => /\ is_open = TRUE
           /\ \A i \in 1..Len(options) :
                  (/\ Some(options[i]) = selected
                   /\ \A j \in 1..(i - 1) : Some(options[j]) # selected)
                      => hovered_option = Some(i - 1)
           /\ Absent => hovered_option = None

\* The widget opened with the selected value second in the list.
HoverSeededAtFirstIndexWitness ==
    /\ Opened
    /\ options = <<"Small", "Medium">>
    /\ selected = Some("Medium")
    /\ hovered_option = Some(1)

\* C7: a primary press outside the bounds of a closed widget leaves the
\* highlight, the menu's state and the mailbox as they were, and the widget
\* closed.
ClosedPressOutsideIsNoOp ==
    (Pressed /\ ~last.pre.is_open /\ ~InBounds)
        => /\ hovered_option = last.pre.hovered_option
           /\ menu = last.pre.menu
           /\ last_selection = last.pre.last_selection
           /\ is_open = FALSE

\* A closed widget that was opened and scrolled before took a press on
\* screen outside its bounds.
ClosedPressOutsideIsNoOpWitness ==
    /\ Pressed
    /\ ~last.pre.is_open
    /\ ~InBounds
    /\ ~AtSentinel
    /\ hovered_option = Some(0)
    /\ menu = "scrolled"
    /\ is_open = FALSE

\* C8: a dispatch of an event that is no primary-button press leaves the
\* State as it was and pushes no message.
OtherEventsIgnored ==
    (Dispatched /\ last.event # LeftPressed)
        => (StateNow = last.pre /\ last.emitted = <<>>)

\* A press of the right button reached an open widget with a value in its
\* mailbox.
OtherEventsIgnoredWitness ==
    /\ Dispatched
    /\ last.event = "Mouse(ButtonPressed(Right))"
    /\ is_open
    /\ last_selection # None

\* C9: a primary press that finds a value in the mailbox ends with the
\* widget closed, wherever the cursor is and whether the widget was open or
\* closed.
CommitWinsOverPosition ==
    (Pressed /\ last.pre.last_selection # None) => is_open = FALSE

\* A closed widget with a value in its mailbox took a press inside its
\* bounds, which opens a closed widget, and ended closed.
CommitWinsOverPositionWitness ==
    /\ Pressed
    /\ ~last.pre.is_open
    /\ last.pre.last_selection # None
    /\ InBounds
    /\ is_open = FALSE
    /\ Len(last.emitted) = 1

\* C10: overlay() returns an element exactly when the widget is open and
\* leaves the State as it was; the element, and with it the menu's write to
\* the mailbox, exists only while the widget is open.
OverlayIffOpen ==
    /\ last.op = "overlay"
           => ((element # None) <=> is_open) /\ StateNow = last.pre
    /\ element # None => is_open
    /\ last.op = "menu_select" => is_open

\* overlay() returned none for a closed widget with a highlight left over.
OverlayIffOpenWitness ==
    /\ last.op = "overlay"
    /\ ~is_open
    /\ element = None
    /\ hovered_option # None

\* C11: a dispatch of on_event stores nothing in the mailbox (it leaves it as
\* it was or empties it), leaves the menu's state as it was, and leaves the
\* highlight of an open widget as it was; the highlight changes only in a
\* primary press that finds the widget closed and opens it.
WidgetWritesOnlyTheSeed ==
    Dispatched
        => /\ last_selection \in {last.pre.last_selection, None}
           /\ menu = last.pre.menu
           /\ last.pre.is_open => hovered_option = last.pre.hovered_option
           /\ hovered_option # last.pre.hovered_option
                  => (Pressed /\ ~last.pre.is_open /\ InBounds /\ is_open)

\* A press opened the closed widget and moved the highlight the menu had
\* left on the first option to the second, the selected one.
WidgetWritesOnlyTheSeedWitness ==
    /\ Pressed
    /\ ~last.pre.is_open
    /\ last.pre.hovered_option = Some(0)
    /\ hovered_option = Some(1)
    /\ is_open

\* The most recent call was layout(), of the widget as it is now.
Laid == computed # None /\ computed[1].op = "layout"

\* The most recent call was hash_layout(), of the widget as it is now.
Hashed == computed # None /\ computed[1].op = "hash_layout"

\* Every widget a frame can build.
Views ==
    [options : SizingLists, selected : OptionOf(SizingValues), width : Widths,
     padding : Paddings, text_size : OptionOf(TextSizes)]

\* Two widgets give hash_layout the same inputs: the same width policy and,
\* under Shrink, the same labels in the same order.
SameFingerprintInputs(v, w) ==
    /\ v.width = w.width
    /\ v.width = Shrink => labels(v) = labels(w)

\* C12: a widget with the fingerprint inputs of the one laid out, under the
\* same limits, gets the same size, whatever its padding, text size and
\* selected value.
FingerprintCoversSizing ==
    Laid => \A v \in Views :
                SameFingerprintInputs(v, PickListNow)
                    => layout(v, computed[1].limits).size = computed[1].size

\* C13: under Shrink, another Shrink widget feeds the hasher what this one
\* fed it exactly when its labels are the same in the same order, whatever
\* its option values, selected value, padding and text size.
ShrinkFingerprintIsTheLabels ==
    (Hashed /\ config.width = Shrink)
        => \A v \in Views :
               v.width = Shrink
                   => ((labels(v) = labels(PickListNow))
                           <=> (hash_layout(v) = computed[1].fed))

\* A Shrink widget was hashed that differs from another in an option value,
\* the selected value, the padding and the text size, and has its labels.
ShrinkFingerprintIsTheLabelsWitness ==
    /\ Hashed
    /\ options = <<"Mid", "Small">>
    /\ selected = Some("Small")
    /\ config = [width |-> Shrink, padding |-> 10, text_size |-> Some(15)]
    /\ computed[1].fed = hash_layout([options |-> <<"Medium", "Small">>,
                                      selected |-> None, width |-> Shrink,
                                      padding |-> 0, text_size |-> None])

\* C14: under a fixed or fill width the widget feeds the hasher the width
\* and nothing else, and so does every widget of that width, whatever its
\* options.
FixedFingerprintIsTheWidth ==
    (Hashed /\ config.width # Shrink)
        => /\ computed[1].fed = hash_length(config.width)
           /\ \A v \in Views :
                  v.width = config.width => hash_layout(v) = computed[1].fed

\* A widget of a fixed width with two options was hashed.
FixedFingerprintIsTheWidthWitness ==
    /\ Hashed
    /\ config.width = Units(80)
    /\ options = <<"Small", "Medium">>
    /\ computed[1].fed = <<"Units", "80">>

\* The effective text size of the widget as it is now.
TextSizeNow ==
    IF config.text_size = None THEN default_size ELSE config.text_size[1]

\* The rounded measured width of option i of the widget as it is now.
RoundedWidth(i) == round(measure(to_string(options[i]), TextSizeNow))

\* C15: under Shrink the intrinsic width is the largest rounded measured
\* width of all the options' labels (100 when there is none) plus the text
\* size plus the padding; under a fixed or fill width no label is measured;
\* the intrinsic height is the effective text size; and the result is the
\* same whatever the selected value.
ShrinkSizingFormula ==
    Laid
        => /\ (config.width = Shrink /\ options # <<>>)
                  => /\ Len(computed[1].measured) = Len(options)
                     /\ \A i \in 1..Len(options) :
                            /\ computed[1].measured[i] = to_string(options[i])
                            /\ computed[1].intrinsic.width
                                   >= RoundedWidth(i) + TextSizeNow
                                          + config.padding
                     /\ \E i \in 1..Len(options) :
                            computed[1].intrinsic.width
                                = RoundedWidth(i) + TextSizeNow + config.padding
           /\ (config.width = Shrink /\ options = <<>>)
                  => computed[1].intrinsic.width
                         = 100 + TextSizeNow + config.padding
           /\ config.width # Shrink => computed[1].measured = <<>>
           /\ computed[1].intrinsic.height = TextSizeNow
           /\ \A sel \in OptionOf(SizingValues) :
                  layout([PickListNow EXCEPT !.selected = sel],
                         computed[1].limits).size = computed[1].size

\* A Shrink widget whose selected value has the narrower label was laid out
\* at a text size that makes that label's width round up.
ShrinkSizingFormulaWitness ==
    /\ Laid
    /\ config = [width |-> Shrink, padding |-> 10, text_size |-> Some(15)]
    /\ options = <<"Small", "Medium">>
    /\ selected = Some("Small")
    /\ RoundedWidth(1) = 8
    /\ computed[1].intrinsic = Size(15 + 15 + 10, 15)

\* C16: under Shrink, a list of as many options, each measuring at least as
\* wide as the option in its place, gets at least the width, at the same
\* text size, padding and limits.
ShrinkSizingMonotone ==
    (Laid /\ config.width = Shrink)
        => \A wider \in SizingLists :
               (/\ Len(wider) = Len(options)
                /\ \A i \in 1..Len(options) :
                       measure(to_string(options[i]), TextSizeNow)
                           <= measure(to_string(wider[i]), TextSizeNow))
                   => computed[1].size.width
                          <= layout([PickListNow EXCEPT !.options = wider],
                                    computed[1].limits).size.width

\* A list of two narrow labels was laid out, narrower than it would be with
\* the second label a wider one.
ShrinkSizingMonotoneWitness ==
    /\ Laid
    /\ config.width = Shrink
    /\ computed[1].limits = LimitsNone
    /\ options = <<"Small", "Small">>
    /\ computed[1].size.width
           < layout([PickListNow EXCEPT !.options = <<"Small", "Medium">>],
                    LimitsNone).size.width

\* C17: the mailbox holds the value the menu wrote last and nothing of an
\* earlier one: a press that drains it pushes one message, on_selected of
\* the last value written, and every value written is by then delivered or
\* was written over.
LastWriteWins ==
    /\ last_selection # None
           => /\ written # <<>>
              /\ last_selection = Some(written[Len(written)])
    /\ (Pressed /\ last.pre.last_selection # None)
           => /\ last.pre.last_selection = Some(written[Len(written)])
              /\ last.emitted = <<[selected |-> written[Len(written)]]>>
    /\ Len(messages) + overwritten + (IF last_selection # None THEN 1 ELSE 0)
           = Len(written)

\* The menu wrote Small, then Medium over it, and the press that followed
\* pushed on_selected(Medium) alone.
LastWriteWinsWitness ==
    /\ Pressed
    /\ written = <<"Small", "Medium">>
    /\ overwritten = 1
    /\ last.pre.last_selection = Some("Medium")
    /\ last.emitted = <<[selected |-> "Medium"]>>
    /\ messages = last.emitted

\* C18: a value in the mailbox is drained by the very next dispatch of a
\* primary press, which pushes its message and closes the widget; so, with
\* presses dispatched fairly, a non-empty mailbox leads to an empty one, a
\* closed widget and the message pushed. Every step before that press, the
\* dispatch of another event included, leaves a value in the mailbox and the
\* widget open.
PendingIsDelivered ==
    /\ (last_selection # None)
           ~> (/\ Pressed
               /\ last.pre.last_selection # None
               /\ last_selection = None
               /\ ~is_open
               /\ last.emitted = <<on_selected(last.pre.last_selection[1])>>)
    /\ [][last_selection # None
              => IF last'.op = "on_event" /\ last'.event = LeftPressed
                 THEN /\ last_selection' = None
                      /\ ~is_open'
                      /\ last'.emitted = <<on_selected(last_selection[1])>>
                 ELSE /\ last_selection' # None
                      /\ is_open']_vars

\* A key press was dispatched to the open widget with a value in its
\* mailbox, and left the value there and the widget open.
PendingIsDeliveredWitness ==
    /\ Dispatched
    /\ last.event # LeftPressed
    /\ last.pre.last_selection # None
    /\ last_selection = last.pre.last_selection
    /\ is_open
    /\ messages = <<>>

\* C19: a closed widget has an empty mailbox, and the widget goes from open
\* to closed only in a dispatch of a primary press, which leaves the mailbox
\* empty.
ClosedIsEmpty ==
    /\ [](~is_open => last_selection = None)
    /\ [][(is_open /\ ~is_open')
              => /\ last'.op = "on_event"
                 /\ last'.event = LeftPressed
                 /\ last'.pre = StateNow
                 /\ last_selection' = None]_vars

\* A press with the cursor unavailable, which would have left the widget
\* open, found a value in the mailbox, drained it and closed the widget.
ClosedIsEmptyWitness ==
    /\ Pressed
    /\ AtSentinel
    /\ last.pre.is_open
    /\ last.pre.last_selection # None
    /\ ~is_open
    /\ last_selection = None

====
